---- MODULE Spec2Model ----
(***************************************************************************)
(* Model of the company research agent (agent.py): the Memory Store, the  *)
(* tool-call log and the chat history of CompanyResearchAgent, and its     *)
(* operations search_web, fetch_financials, classify_intent, ask,          *)
(* perform_deep_research, answer_followup, compare_companies and           *)
(* update_company_section.                                                 *)
(*                                                                         *)
(* Text is a sequence of tokens (strings).  A provider's answer (search,   *)
(* market data, LLM) is an input drawn from a small set by the action that *)
(* makes the call.  Python's None is the value None.                       *)
(***************************************************************************)
EXTENDS Integers, Sequences, FiniteSets, TLC

VARIABLES
    company_memory,   \* self.company_memory: key -> [text, original_text, json]
    mem_order,        \* insertion order of the keys of self.company_memory
    tool_calls,       \* self.tool_calls
    chat_history,     \* self.chat_history
    google_configured,\* self.google_api_key and self.cse_id
    ddgs_available,   \* the module-level DDGS is not None
    pc,               \* position of the call in progress, "idle" between calls
    op,               \* the entry point of the current (or last) call
    args,             \* its arguments
    frame,            \* locals of the call in progress
    ret,              \* outcome of the last call that ended
    events,           \* provider calls and flow steps of the current (or last) call
    env,              \* the provider answers consumed by the last step
    pre,              \* Memory Store and tool-call log when the call started
    ncalls            \* number of entry-point calls made so far

vars == <<company_memory, mem_order, tool_calls, chat_history, google_configured,
          ddgs_available, pc, op, args, frame, ret, events, env, pre, ncalls>>

----------------------------------------------------------------------------
(* Bounds of the model *)

MaxCalls == 2

----------------------------------------------------------------------------
(* Python values *)

None == "None"

SeqToSet(s) == {s[i] : i \in 1..Len(s)}

Contains(s, tok) == \E i \in 1..Len(s) : s[i] = tok

RECURSIVE RemoveTok(_, _)
RemoveTok(s, tok) ==
    IF s = <<>> THEN <<>>
    ELSE IF Head(s) = tok THEN RemoveTok(Tail(s), tok)
         ELSE <<Head(s)>> \o RemoveTok(Tail(s), tok)

\* str.strip(): leading and trailing whitespace tokens are dropped
RECURSIVE LStrip(_)
LStrip(s) == IF s # <<>> /\ Head(s) = " " THEN LStrip(Tail(s)) ELSE s

RECURSIVE RStrip(_)
RStrip(s) ==
    IF s # <<>> /\ s[Len(s)] = " " THEN RStrip(SubSeq(s, 1, Len(s) - 1)) ELSE s

Strip(s) == RStrip(LStrip(s))

\* str.find / str.rfind of a one-token needle: 1-based position, 0 when absent
Find(s, tok) ==
    IF Contains(s, tok) THEN CHOOSE i \in 1..Len(s) :
                                 s[i] = tok /\ \A j \in 1..(i - 1) : s[j] # tok
    ELSE 0

RFind(s, tok) ==
    IF Contains(s, tok) THEN CHOOSE i \in 1..Len(s) :
                                 s[i] = tok /\ \A j \in (i + 1)..Len(s) : s[j] # tok
    ELSE 0

----------------------------------------------------------------------------
(* Characters of the strings the regular expressions scan *)

UpperLetters == {"A", "B", "C", "D", "E", "F", "I", "M"}
LowerLetters == {"a", "b", "c", "d", "e", "f", "i", "m"}

\* str.upper() on one character
UpperChar(c) ==
    CASE c = "a" -> "A" [] c = "b" -> "B" [] c = "c" -> "C" [] c = "d" -> "D"
      [] c = "e" -> "E" [] c = "f" -> "F" [] c = "i" -> "I" [] c = "m" -> "M"
      [] OTHER -> c

Upper(chars) == [i \in 1..Len(chars) |-> UpperChar(chars[i])]

\* \w of the re module
IsWordChar(c) == c \in UpperLetters \cup LowerLetters \cup {"1", "_"}

\* the characters of each string the model uses as a company name, an utterance
\* or a search-hit title
Spell(s) ==
    CASE s = "acme"    -> <<"a", "c", "m", "e">>
      [] s = "IBM"     -> <<"I", "B", "M">>
      [] s = "Acme"    -> <<"A", "c", "m", "e">>
      [] s = "ABCDEF"  -> <<"A", "B", "C", "D", "E", "F">>
      [] s = "acme AB" -> <<"a", "c", "m", "e", " ", "A", "B">>
      [] s = "abcdef"  -> <<"a", "b", "c", "d", "e", "f">>
      [] s = "a1 - fab1" -> <<"a", "1", " ", "-", " ", "f", "a", "b", "1">>
      [] s = "abcdef - IBM" -> <<"a", "b", "c", "d", "e", "f", " ", "-", " ", "I", "B", "M">>
      [] OTHER         -> <<>>

\* \b at the gap before position i (1..Len+1)
WordBoundary(chars, i) ==
    LET before == i > 1 /\ IsWordChar(chars[i - 1])
        after  == i <= Len(chars) /\ IsWordChar(chars[i])
    IN  before # after

\* the end of the match of [A-Z]{1,5}\b that starts at i, 0 when there is none
MatchEnd(chars, i) ==
    LET ends == {j \in i..(i + 4) :
                    /\ j <= Len(chars)
                    /\ \A k \in i..j : chars[k] \in UpperLetters
                    /\ WordBoundary(chars, j + 1)}
    IN  IF ends = {} THEN 0 ELSE CHOOSE j \in ends : TRUE

\* re.search(r"\b[A-Z]{1,5}\b", chars): the leftmost match; no match (None, which
\* the code only tests for truth) is the empty sequence, as a match is never empty
ReSearchTicker(chars) ==
    LET starts == {i \in 1..Len(chars) :
                      WordBoundary(chars, i) /\ MatchEnd(chars, i) # 0}
    IN  IF starts = {} THEN <<>>
        ELSE LET i == CHOOSE x \in starts : \A y \in starts : x <= y
             IN  SubSeq(chars, i, MatchEnd(chars, i))

----------------------------------------------------------------------------
(* JSON text: json.loads over tokens *)

JsonStrings == {"intent", "companies", "research", "compare", "follow_up",
                "greeting", "off_topic", "chat", "acme", "IBM", "Acme",
                "overview", "market_position", "ov1", "mp1", "New", "other"}

JsonScalars == JsonStrings \cup {"null", "42"}

ParseFail == [ok |-> FALSE, rest |-> <<>>]

RECURSIVE ParseValue(_), ParseElems(_), ParseMembers(_)

\* one JSON value at the head of s: [ok, rest]
ParseValue(s) ==
    IF s = <<>> THEN ParseFail
    ELSE IF Head(s) \in JsonScalars THEN [ok |-> TRUE, rest |-> Tail(s)]
    ELSE IF Head(s) = "[" THEN
        IF Len(s) >= 2 /\ s[2] = "]" THEN [ok |-> TRUE, rest |-> SubSeq(s, 3, Len(s))]
        ELSE ParseElems(Tail(s))
    ELSE IF Head(s) = "{" THEN
        IF Len(s) >= 2 /\ s[2] = "}" THEN [ok |-> TRUE, rest |-> SubSeq(s, 3, Len(s))]
        ELSE ParseMembers(Tail(s))
    ELSE ParseFail

\* value ("," value)* "]"
ParseElems(s) ==
    LET v == ParseValue(s)
    IN  IF ~v.ok \/ v.rest = <<>> THEN ParseFail
        ELSE IF Head(v.rest) = "]" THEN [ok |-> TRUE, rest |-> Tail(v.rest)]
        ELSE IF Head(v.rest) = "," THEN ParseElems(Tail(v.rest))
        ELSE ParseFail

\* string ":" value ("," string ":" value)* "}"
ParseMembers(s) ==
    IF Len(s) < 2 \/ s[1] \notin JsonStrings \/ s[2] # ":" THEN ParseFail
    ELSE LET v == ParseValue(SubSeq(s, 3, Len(s)))
         IN  IF ~v.ok \/ v.rest = <<>> THEN ParseFail
             ELSE IF Head(v.rest) = "}" THEN [ok |-> TRUE, rest |-> Tail(v.rest)]
             ELSE IF Head(v.rest) = "," THEN ParseMembers(Tail(v.rest))
             ELSE ParseFail

\* the tokens of the first value of s (s starts with a value)
ValueToks(s) == SubSeq(s, 1, Len(s) - Len(ParseValue(s).rest))

EmptyFields == [k \in {} |-> <<>>]

\* the members of an object body (after "{", up to "}"): key -> tokens of its value;
\* a repeated key keeps its last value, as a Python dict does
RECURSIVE MembersOf(_)
MembersOf(s) ==
    IF s = <<>> \/ Head(s) = "}" THEN EmptyFields
    ELSE LET rest == SubSeq(s, 3, Len(s))
             val  == ValueToks(rest)
             more == SubSeq(rest, Len(val) + 1, Len(rest))
             tail == IF more # <<>> /\ Head(more) = "," THEN Tail(more) ELSE more
             later == MembersOf(tail)
         IN  [k \in DOMAIN later \cup {s[1]} |->
                 IF k \in DOMAIN later THEN later[k] ELSE val]

\* a Python value decoded from JSON: kind, fields (of a dict), toks (of anything else)
PyDict(fields) == [kind |-> "dict", fields |-> fields, toks |-> <<>>]

PyOther(kind, toks) == [kind |-> kind, fields |-> EmptyFields, toks |-> toks]

KindOfToks(toks) ==
    IF Head(toks) = "{" THEN "dict"
    ELSE IF Head(toks) = "[" THEN "list"
    ELSE IF Head(toks) = "null" THEN "null"
    ELSE IF Head(toks) = "42" THEN "int"
    ELSE "str"

DecodeToks(toks) ==
    IF KindOfToks(toks) = "dict" THEN PyDict(MembersOf(Tail(toks)))
    ELSE PyOther(KindOfToks(toks), toks)

\* json.loads(s): [ok, value]; ok = FALSE stands for json.JSONDecodeError.
\* Whitespace between tokens is insignificant.
json_loads(s) ==
    LET t == RemoveTok(s, " ")
        r == ParseValue(t)
    IN  IF r.ok /\ r.rest = <<>> THEN [ok |-> TRUE, value |-> DecodeToks(t)]
        ELSE [ok |-> FALSE, value |-> PyOther("null", <<"null">>)]

\* the elements of a JSON array given by its tokens, each as its tokens
RECURSIVE ElemsOf(_)
ElemsOf(s) ==
    IF s = <<>> \/ Head(s) = "]" THEN <<>>
    ELSE LET val  == ValueToks(s)
             more == SubSeq(s, Len(val) + 1, Len(s))
             tail == IF more # <<>> /\ Head(more) = "," THEN Tail(more) ELSE more
         IN  <<val>> \o ElemsOf(tail)

ListItems(toks) == ElemsOf(Tail(toks))

----------------------------------------------------------------------------
(* The LLM boundary *)

ErrorText == <<"Error generating content">>

\* an answer of model.generate_content: kind "text" (resp.text), "parts"
\* (resp.candidates[0].content.parts), "blank" (neither) or "raise"
LLM(kind, toks) == [kind |-> kind, toks |-> toks]

safe_generate_text(resp) ==
    IF resp.kind = "raise" THEN ErrorText
    ELSE IF resp.kind = "text" /\ resp.toks # <<>> THEN Strip(resp.toks)
    ELSE IF resp.kind = "parts" THEN Strip(resp.toks)
    ELSE <<>>

\* the Markdown fence tokens: three backquotes followed by json, and three backquotes
FenceJson == "[fence]json"
Fence == "[fence]"

clean_json_string(json_str) ==
    IF Contains(json_str, FenceJson)
    THEN Strip(RemoveTok(RemoveTok(json_str, FenceJson), Fence))
    ELSE IF Contains(json_str, Fence) THEN Strip(RemoveTok(json_str, Fence))
    ELSE Strip(json_str)

----------------------------------------------------------------------------
(* Tool-call log *)

LogLimit == 300

Trunc(s, n) == IF Len(s) <= n THEN s ELSE SubSeq(s, 1, n)

\* the record self._log_tool appends (its timestamp, which nothing reads, is left out)
log_tool(tool, inp, out) ==
    [tool |-> tool, input |-> Trunc(inp, LogLimit), output |-> Trunc(out, LogLimit)]

NumStr(n) == CASE n = 0 -> "0" [] n = 1 -> "1" [] n = 2 -> "2" [] OTHER -> "many"

Event(ev, arg) == [ev |-> ev, arg |-> arg]

----------------------------------------------------------------------------
(* Search layer *)

\* an answer of the primary provider (requests.get): kind "raise", or "resp" with a
\* status code, a body that res.json()/data.get can read ("ok") or not ("bad"),
\* and the items of the body, each with its title (None when the item has none)
Primary(kind, code, body, items) ==
    [kind |-> kind, code |-> code, body |-> body, items |-> items]

\* an answer of the secondary provider (DDGS().text): kind "ok", "raise", or
\* "badrecord" (a hit lacks title, href or body, so building the list raises)
Fallback(kind, items) == [kind |-> kind, items |-> items]

Hit(title) == [title |-> title, link |-> "url", snippet |-> "snip"]

MapHits(items) == [i \in 1..Len(items) |-> Hit(items[i])]

\* part B of search_web: the fallback provider, when it is installed
search_fallback(query, top_k, prim, fb) ==
    IF ddgs_available
    THEN IF fb.kind = "ok"
         THEN [results |-> MapHits(fb.items),
               log |-> <<log_tool("DuckDuckGo", query,
                                  <<"Found", NumStr(Len(fb.items))>>)>>,
               events |-> <<Event("ddg", query)>>]
         ELSE [results |-> <<>>,
               log |-> <<log_tool("Search Error", query, <<"exception">>)>>,
               events |-> <<Event("ddg", query)>>]
    ELSE [results |-> <<>>, log |-> <<>>, events |-> <<>>]

\* search_web with the return of the primary branch lost: results are computed and
\* logged, and the fallback runs all the same
search_web_no_short_circuit(query, top_k, prim, fb) ==
    LET f == search_fallback(query, top_k, prim, fb)
        g == IF google_configured /\ prim.kind = "resp" /\ prim.code = 200
                   /\ prim.body = "ok"
             THEN <<log_tool("Google Search", query,
                             <<"Found", NumStr(Len(prim.items))>>)>>
             ELSE <<>>
        e == IF google_configured THEN <<Event("google", query)>> ELSE <<>>
    IN  [results |-> f.results, log |-> g \o f.log, events |-> e \o f.events]

\* search_web(query, top_k): the list returned, the records logged, the providers
\* called
search_web(query, top_k, prim, fb) ==
    LET f == search_fallback(query, top_k, prim, fb)
    IN  IF google_configured
        THEN IF prim.kind = "resp" /\ prim.code = 200 /\ prim.body = "ok"
             THEN [results |-> MapHits(prim.items),
                   log |-> <<log_tool("Google Search", query,
                                      <<"Found", NumStr(Len(prim.items))>>)>>,
                   events |-> <<Event("google", query)>>]
             ELSE [results |-> f.results, log |-> f.log,
                   events |-> <<Event("google", query)>> \o f.events]
        ELSE f

----------------------------------------------------------------------------
(* Financial layer *)

\* a Python value used as a company: kind "str" with its text s, or another kind
PyStr(s) == [kind |-> "str", s |-> s]

FinError(msg) == [kind |-> "error", msg |-> msg, symbol |-> <<>>]

\* the dict of figures returned for a ticker; msg names the path that produced it
FinData(source, ticker) == [kind |-> "data", msg |-> source, symbol |-> ticker]

Outcome(raised, val, log, evs) ==
    [raised |-> raised, val |-> val, log |-> log, events |-> evs]

\* the market-data part of fetch_financials, for a detected ticker; yf is the
\* provider's answer: "fast" (fast_info has a price), "info" (only info has one),
\* "nodata" or "raise"
fetch_market_data(ticker, yf, log, evs) ==
    LET e == evs \o <<Event("yfinance", ticker)>>
    IN  IF yf = "fast"
        THEN Outcome(FALSE, FinData("yfinance fast_info", ticker),
                     log \o <<log_tool("YFinance", ticker, <<"Success">>)>>, e)
        ELSE IF yf = "info"
        THEN Outcome(FALSE, FinData("info", ticker),
                     log \o <<log_tool("YFinance", ticker, <<"Success">>)>>, e)
        ELSE IF yf = "nodata"
        THEN Outcome(FALSE, FinError("No financial data available"), log, e)
        ELSE Outcome(FALSE, FinError("exception"), log, e)

\* fetch_financials(company): raised (with the exception's name) or the dict
\* returned, the records logged, the providers called
fetch_financials(company, prim, fb, yf) ==
    IF company.kind # "str"
    THEN Outcome(TRUE, <<"TypeError">>, <<>>, <<>>)
    ELSE
    LET direct == ReSearchTicker(Spell(company.s))
        sw     == search_web(<<company.s, "stock ticker symbol">>, 1, prim, fb)
    IN  IF direct # <<>>
        THEN fetch_market_data(direct, yf, <<>>, <<>>)
        ELSE IF sw.results = <<>>
        THEN Outcome(FALSE, FinError("Could not detect ticker."), sw.log, sw.events)
        ELSE IF sw.results[1].title = None
        THEN Outcome(TRUE, <<"AttributeError">>, sw.log, sw.events)
        ELSE LET m == ReSearchTicker(Upper(Spell(sw.results[1].title)))
             IN  IF m = <<>>
                 THEN Outcome(FALSE, FinError("Could not detect ticker."),
                              sw.log, sw.events)
                 ELSE fetch_market_data(m, yf, sw.log, sw.events)

----------------------------------------------------------------------------
(* Intent layer *)

DefaultIntent ==
    PyDict([k \in {"intent", "companies"} |->
               IF k = "intent" THEN <<"research">> ELSE <<"[", "]">>])

\* classify_intent without its try/except: a failed parse propagates
classify_intent_no_except(resp) ==
    LET res   == clean_json_string(safe_generate_text(resp))
        start == Find(res, "{")
        stop  == RFind(res, "}")
        p     == json_loads(SubSeq(res, start, stop))
    IN  IF Contains(res, "{")
        THEN IF p.ok THEN Outcome(FALSE, p.value, <<>>, <<Event("llm", <<"classify">>)>>)
             ELSE Outcome(TRUE, <<"JSONDecodeError">>, <<>>, <<Event("llm", <<"classify">>)>>)
        ELSE Outcome(FALSE, DefaultIntent, <<>>, <<Event("llm", <<"classify">>)>>)

\* classify_intent(user_text), for the answer resp of the LLM
classify_intent(resp) ==
    LET res   == clean_json_string(safe_generate_text(resp))
        start == Find(res, "{")
        stop  == RFind(res, "}")
        p     == json_loads(SubSeq(res, start, stop))
    IN  IF Contains(res, "{") /\ p.ok
        THEN Outcome(FALSE, p.value, <<>>, <<Event("llm", <<"classify">>)>>)
        ELSE Outcome(FALSE, DefaultIntent, <<>>, <<Event("llm", <<"classify">>)>>)

----------------------------------------------------------------------------
(* Python values read by ask and compare_companies *)

GetField(d, k, default) == IF k \in DOMAIN d.fields THEN d.fields[k] ELSE default

\* an element of a decoded list, as a Python value
ElemValue(t) ==
    IF KindOfToks(t) = "str" THEN PyStr(Head(t)) ELSE [kind |-> KindOfToks(t), s |-> None]

\* iterating a Python value: the elements of a list, the characters of a str, the keys
\* of a dict (in no modelled order: a dict here has at most one key)
PyItems(v) ==
    IF v.kind = "list" THEN [i \in 1..Len(ListItems(v.toks)) |-> ElemValue(ListItems(v.toks)[i])]
    ELSE IF v.kind = "str" THEN [i \in 1..Len(Spell(Head(v.toks))) |-> PyStr(Spell(Head(v.toks))[i])]
    ELSE <<>>

\* len(v) raises TypeError for None and for a number
PyLenRaises(v) == v.kind \in {"null", "int"}

PyLen(v) == IF v.kind = "dict" THEN Cardinality(DOMAIN v.fields) ELSE Len(PyItems(v))

\* bool(v)
Truthy(v) ==
    IF v.kind = "null" THEN FALSE
    ELSE IF v.kind = "int" THEN TRUE
    ELSE PyLen(v) > 0

\* v[0] raises for a number (TypeError) and for a dict (KeyError)
FirstRaises(v) == v.kind \in {"int", "dict"}

\* hash(c) raises TypeError for a list and for a dict
Hashable(c) == c.kind \in {"str", "null", "int"}

----------------------------------------------------------------------------
(* Memory Store *)

Entry(text, original_text, json) ==
    [text |-> text, original_text |-> original_text, json |-> json]

\* mem[key] = entry on a dict: a new key goes last, an old key keeps its place
MemSet(mem, key, entry) ==
    [k \in DOMAIN mem \cup {key} |-> IF k = key THEN entry ELSE mem[k]]

OrderSet(order, key) ==
    IF key \in SeqToSet(order) THEN order ELSE Append(order, key)

ParseErrorPayload(raw) ==
    PyDict([k \in {"error", "raw"} |->
               IF k = "error" THEN <<"Failed to parse JSON">> ELSE raw])

\* step 2 of perform_deep_research: the json stored for the extraction answer resp
extract_json(resp) ==
    LET json_str == clean_json_string(safe_generate_text(resp))
        p        == json_loads(json_str)
    IN  IF p.ok THEN p.value ELSE ParseErrorPayload(json_str)

\* the Memory Store write that ends perform_deep_research
research_store(mem, company_name, report_text, json_data) ==
    MemSet(mem, company_name, Entry(report_text, report_text, json_data))

----------------------------------------------------------------------------
(* Section editor *)

NotFoundReply == <<"Error: Company not found">>
UpdateReply == <<"Report Regenerated Successfully.">>

Edited(raised, val, mem, evs) ==
    [raised |-> raised, val |-> val, mem |-> mem, events |-> evs]

\* update_company_section with a missing company treated as an empty plan
update_company_section_no_guard(mem, company, section, new_val, resp) ==
    LET old == IF company \in DOMAIN mem THEN mem[company]
               ELSE Entry(<<>>, <<>>, PyDict(EmptyFields))
        json == PyDict([k \in DOMAIN old.json.fields \cup {section} |->
                           IF k = section THEN new_val ELSE old.json.fields[k]])
    IN  Edited(FALSE, UpdateReply,
               MemSet(mem, company,
                      Entry(safe_generate_text(resp), old.original_text, json)),
               <<Event("llm", <<"update">>)>>)

\* update_company_section(company, section, new_val), for the answer resp of the LLM
update_company_section(mem, company, section, new_val, resp) ==
    IF company \notin DOMAIN mem
    THEN Edited(FALSE, NotFoundReply, mem, <<>>)
    ELSE IF mem[company].json.kind # "dict"
    THEN Edited(TRUE, <<"TypeError">>, mem, <<>>)
    ELSE LET old  == mem[company]
             json == PyDict([k \in DOMAIN old.json.fields \cup {section} |->
                                IF k = section THEN new_val ELSE old.json.fields[k]])
         IN  Edited(FALSE, UpdateReply,
                    MemSet(mem, company,
                           Entry(safe_generate_text(resp), old.original_text, json)),
                    <<Event("llm", <<"update">>)>>)

----------------------------------------------------------------------------
(* Provider answers the actions draw from *)

Titles == {None, "acme", "abcdef", "a1 - fab1", "abcdef - IBM"}

PrimaryAnswers ==
    {Primary("raise", 0, "bad", <<>>), Primary("resp", 503, "ok", <<>>),
     Primary("resp", 200, "bad", <<>>), Primary("resp", 200, "ok", <<>>)}
    \cup {Primary("resp", 200, "ok", <<t>>) : t \in Titles}
    \cup {Primary("resp", 200, "ok", <<"abcdef", "acme">>)}

FallbackAnswers ==
    {Fallback("raise", <<>>), Fallback("badrecord", <<>>), Fallback("ok", <<>>)}
    \cup {Fallback("ok", <<t>>) : t \in Titles \ {None}}
    \cup {Fallback("ok", <<"abcdef", "acme">>)}

MarketAnswers == {"fast", "info", "nodata", "raise"}

\* the answers the research flows of Spec draw from: a search that finds one hit,
\* a ticker search whose top hit has a title or lacks one, a market-data answer
SearchPrimary == {Primary("resp", 200, "ok", <<"acme">>)}
TickerPrimary == {Primary("resp", 200, "ok", <<None>>), Primary("resp", 200, "ok", <<"acme">>)}
FallbackFew == {Fallback("ok", <<>>)}
MarketFew == {"fast"}

Doc1 == <<"{", "overview", ":", "ov1", ",", "market_position", ":", "mp1", "}">>

ReportAnswers == {LLM("text", <<"R1">>), LLM("text", <<"R2">>)}

ExtractAnswers ==
    {LLM("text", <<FenceJson, " ">> \o Doc1 \o <<" ", Fence>>),
     LLM("text", <<"Sure", " ">> \o Doc1),
     LLM("text", <<"[", "]">>)}

UpdateAnswers == {LLM("text", <<"U1">>), LLM("parts", <<"U2", " ">>)}

FollowupAnswers == {LLM("text", <<"A1">>)}

CompareAnswers == {LLM("text", <<"T1">>)}

IntentDoc(intent, companies) ==
    <<"{", "intent", ":", intent, ",", "companies", ":">> \o companies \o <<"}">>

\* answers of the classifier LLM, each with the shape it has: "wellformed" (an object
\* with intent and companies), "otherfields" (an object lacking one of them),
\* "nonjson", "empty", "raise"
Fixture(resp, shape) == [resp |-> resp, shape |-> shape]

ClassifyFixtures ==
    {Fixture(LLM("text", IntentDoc("research", <<"[", "acme", "]">>)), "wellformed"),
     Fixture(LLM("text", IntentDoc("research", <<"[", "IBM", "]">>)), "wellformed"),
     Fixture(LLM("text", IntentDoc("research", <<"[", "]">>)), "wellformed"),
     Fixture(LLM("text", IntentDoc("compare", <<"[", "acme", ",", "IBM", "]">>)), "wellformed"),
     Fixture(LLM("text", IntentDoc("compare", <<"[", "acme", ",", "acme", "]">>)), "wellformed"),
     Fixture(LLM("text", IntentDoc("compare", <<"[", "IBM", "]">>)), "wellformed"),
     Fixture(LLM("text", IntentDoc("follow_up", <<"[", "]">>)), "wellformed"),
     Fixture(LLM("text", IntentDoc("follow_up", <<"[", "IBM", "]">>)), "wellformed"),
     Fixture(LLM("text", IntentDoc("chat", <<"[", "IBM", "]">>)), "wellformed"),
     Fixture(LLM("text", <<FenceJson>> \o IntentDoc("greeting", <<"[", "]">>) \o <<Fence>>),
             "wellformed"),
     Fixture(LLM("parts", <<"Sure", " ">> \o IntentDoc("off_topic", <<"[", "]">>) \o <<" ", "ok">>),
             "wellformed"),
     Fixture(LLM("text", IntentDoc("compare", <<"null">>)), "wellformed"),
     Fixture(LLM("text", IntentDoc("research", <<"[", "null", "]">>)), "wellformed"),
     Fixture(LLM("text", <<"{", "intent", ":", "research", "}">>), "otherfields"),
     Fixture(LLM("text", <<"{", "other", ":", "42", "}">>), "otherfields"),
     Fixture(LLM("text", <<"{", "}">>), "otherfields"),
     Fixture(LLM("text", <<"Sure", " ", "ok">>), "nonjson"),
     Fixture(LLM("text", <<"{", "intent", ":", "research">>), "nonjson"),
     Fixture(LLM("text", <<"}", "intent", "{">>), "nonjson"),
     Fixture(LLM("text", <<"{", "intent", ":", "Sure", ":", "}">>), "nonjson"),
     Fixture(LLM("text", <<>>), "empty"),
     Fixture(LLM("blank", <<>>), "empty"),
     Fixture(LLM("raise", <<>>), "raise")}

ClassifyAnswers == {f.resp : f \in ClassifyFixtures}

Companies == {"acme", "IBM"}

Utterances == {"acme"}

ClassifyUtterances == {"acme", "IBM"}

FinCompanies == {"acme", "IBM", "Acme", "ABCDEF", "acme AB"}

Queries == {<<c, "strategic analysis news">> : c \in Companies}
             \cup {<<c, "stock ticker symbol">> : c \in Companies}

CompanyLists == {<<"acme", "IBM">>, <<"IBM", "acme">>, <<"acme", "acme">>, <<"IBM">>}

Sections == {"overview", "other"}

NewValues == {<<"New">>}

----------------------------------------------------------------------------
(* State *)

NoPrimary == Primary("none", 0, "bad", <<>>)
NoFallback == Fallback("none", <<>>)
NoLLM == LLM("none", <<>>)

Env(prim, fb, yf, llm) == [prim |-> prim, fb |-> fb, yf |-> yf, llm |-> llm]

NoEnv == Env(NoPrimary, NoFallback, "none", NoLLM)

Frame(mode, company, report_text, todo, user_text) ==
    [mode |-> mode, company |-> company, report_text |-> report_text,
     todo |-> todo, user_text |-> user_text]

NoFrame == Frame("none", PyStr(""), <<>>, <<>>, "")

\* no outcome yet: the call is in progress
Pending == [kind |-> "none", val |-> <<>>]

Args(company, section, new_val, companies, user_text) ==
    [company |-> company, section |-> section, new_val |-> new_val,
     companies |-> companies, user_text |-> user_text]

NoArgs == Args("", "", <<>>, <<>>, "")

Ret(kind, val) == [kind |-> kind, val |-> val]

Snapshot ==
    [mem |-> company_memory, order |-> mem_order, tools |-> tool_calls,
     chat |-> chat_history]

\* __init__ leaves the three collections empty; the search credentials and the
\* optional duckduckgo_search import are either present or not
Init ==
    /\ company_memory = EmptyFields
    /\ mem_order = <<>>
    /\ tool_calls = <<>>
    /\ chat_history = <<>>
    /\ google_configured \in BOOLEAN
    /\ ddgs_available \in BOOLEAN
    /\ pc = "idle"
    /\ op = "none"
    /\ args = NoArgs
    /\ frame = NoFrame
    /\ ret = Pending
    /\ events = <<>>
    /\ env = NoEnv
    /\ pre = [mem |-> EmptyFields, order |-> <<>>, tools |-> <<>>, chat |-> <<>>]
    /\ ncalls = 0

Config == <<google_configured, ddgs_available>>

\* a call may start
CanCall == pc = "idle" /\ ncalls < MaxCalls

\* no call was made yet
Fresh == pc = "idle" /\ op = "none"

\* bookkeeping common to every entry point
Enter(name, a) ==
    /\ op' = name
    /\ args' = a
    /\ pre' = Snapshot
    /\ ncalls' = ncalls + 1

\* the call ends: it returns val (kind "value") or raises val (kind "raise")
Leave(kind, val) ==
    /\ pc' = "idle"
    /\ frame' = NoFrame
    /\ ret' = Ret(kind, val)

----------------------------------------------------------------------------
(* Entry points that run in one step *)

\* search_web(query) called on its own
CallSearchWeb ==
    \E q \in Queries, prim \in PrimaryAnswers, fb \in FallbackAnswers :
        LET sw == search_web(q, 5, prim, fb)
        IN  /\ Fresh
            /\ Enter("search_web", Args("", "", <<>>, q, ""))
            /\ tool_calls' = tool_calls \o sw.log
            /\ events' = sw.events
            /\ env' = Env(prim, fb, "none", NoLLM)
            /\ Leave("value", sw.results)
            /\ UNCHANGED <<company_memory, mem_order, chat_history, Config>>

\* fetch_financials(company) called on its own
CallFetchFinancials ==
    \E c \in FinCompanies, prim \in PrimaryAnswers, fb \in FallbackAnswers,
       yf \in MarketAnswers :
        LET fo == fetch_financials(PyStr(c), prim, fb, yf)
        IN  /\ Fresh
            /\ Enter("fetch_financials", Args(c, "", <<>>, <<>>, ""))
            /\ tool_calls' = tool_calls \o fo.log
            /\ events' = fo.events
            /\ env' = Env(prim, fb, yf, NoLLM)
            /\ Leave(IF fo.raised THEN "raise" ELSE "value", fo.val)
            /\ UNCHANGED <<company_memory, mem_order, chat_history, Config>>

\* classify_intent(user_text) called on its own
CallClassifyIntent ==
    \E u \in ClassifyUtterances, f \in ClassifyFixtures :
        LET cl == classify_intent(f.resp)
        IN  /\ Fresh
            /\ Enter("classify_intent", Args("", "", <<>>, <<>>, u))
            /\ events' = cl.events
            /\ env' = Env(NoPrimary, NoFallback, "none", f.resp)
            /\ Leave(IF cl.raised THEN "raise" ELSE "value", cl.val)
            /\ UNCHANGED <<company_memory, mem_order, tool_calls, chat_history, Config>>

\* update_company_section(company, section, new_val)
CallUpdateCompanySection ==
    \E c \in Companies, sec \in Sections, v \in NewValues, resp \in UpdateAnswers :
        LET u == update_company_section(company_memory, c, sec, v, resp)
        IN  /\ CanCall
            /\ Enter("update_company_section", Args(c, sec, v, <<>>, ""))
            /\ company_memory' = u.mem
            /\ events' = u.events
            /\ Leave(IF u.raised THEN "raise" ELSE "value", u.val)
            /\ UNCHANGED <<mem_order, tool_calls, chat_history, Config, env>>

----------------------------------------------------------------------------
(* ask *)

OffTopicReply == <<"I specialize in corporate strategy. Please ask me to research a company.">>
GreetingReply == <<"Hello! I am your Enterprise Research Agent. Ask me to 'Analyze Tesla' or 'Compare Ford and GM'.">>

\* what ask does after classification: [next, company, todo, val]; next is "return",
\* "raise", or the position the call moves to
Dispatch(next, company, todo, val) ==
    [next |-> next, company |-> company, todo |-> todo, val |-> val]

\* ask without the two early returns of lines 188-192
ask_dispatch_no_early_return(d, user_text, mem, order) ==
    LET intent    == GetField(d, "intent", <<"research">>)
        companies == DecodeToks(GetField(d, "companies", <<"[", "]">>))
        company   == IF Truthy(companies) THEN PyItems(companies)[1] ELSE PyStr(user_text)
    IN  IF intent = <<"compare">> /\ PyLenRaises(companies)
        THEN Dispatch("raise", PyStr(""), <<>>, <<"TypeError">>)
        ELSE IF intent = <<"compare">> /\ PyLen(companies) >= 2
        THEN Dispatch("cmp_loop", PyStr(""), PyItems(companies), <<>>)
        ELSE IF Truthy(companies) /\ FirstRaises(companies)
        THEN Dispatch("raise", PyStr(""), <<>>, <<"TypeError">>)
        ELSE IF intent = <<"follow_up">> /\ DOMAIN mem # {}
        THEN Dispatch("followup", PyStr(order[Len(order)]), <<>>, <<>>)
        ELSE Dispatch("r_search", company, <<>>, <<>>)

\* lines 185-203 of ask, for the classifier's dict d
ask_dispatch(d, user_text, mem, order) ==
    LET intent    == GetField(d, "intent", <<"research">>)
        companies == DecodeToks(GetField(d, "companies", <<"[", "]">>))
        company   == IF Truthy(companies) THEN PyItems(companies)[1] ELSE PyStr(user_text)
    IN  IF intent = <<"off_topic">> THEN Dispatch("return", PyStr(""), <<>>, OffTopicReply)
        ELSE IF intent = <<"greeting">> THEN Dispatch("return", PyStr(""), <<>>, GreetingReply)
        ELSE IF intent = <<"compare">> /\ PyLenRaises(companies)
        THEN Dispatch("raise", PyStr(""), <<>>, <<"TypeError">>)
        ELSE IF intent = <<"compare">> /\ PyLen(companies) >= 2
        THEN Dispatch("cmp_loop", PyStr(""), PyItems(companies), <<>>)
        ELSE IF Truthy(companies) /\ FirstRaises(companies)
        THEN Dispatch("raise", PyStr(""), <<>>, <<"TypeError">>)
        ELSE IF intent = <<"follow_up">> /\ DOMAIN mem # {}
        THEN Dispatch("followup", PyStr(order[Len(order)]), <<>>, <<>>)
        ELSE Dispatch("r_search", company, <<>>, <<>>)

\* ask(user_text) up to its dispatch: history, classification, branch
CallAsk ==
    \E u \in Utterances, resp \in ClassifyAnswers :
        LET cl == classify_intent(resp)
            d  == ask_dispatch(cl.val, u, company_memory, mem_order)
        IN  /\ CanCall
            /\ Enter("ask", Args("", "", <<>>, <<>>, u))
            /\ chat_history' = Append(chat_history, [role |-> "user", text |-> u])
            /\ events' = cl.events \o <<Event("intent_data", <<cl.val>>)>>
            /\ IF d.next \in {"return", "raise"}
               THEN Leave(IF d.next = "raise" THEN "raise" ELSE "value", d.val)
               ELSE /\ pc' = d.next
                    /\ frame' = Frame(IF d.next = "cmp_loop" THEN "compare" ELSE "single",
                                       d.company, <<>>, d.todo, u)
                    /\ ret' = Pending
            /\ UNCHANGED <<company_memory, mem_order, tool_calls, Config, env>>

\* answer_followup(company, question)
StepFollowup ==
    \E resp \in FollowupAnswers :
        /\ pc = "followup"
        /\ events' = events \o <<Event("followup", <<frame.company.s>>),
                                  Event("llm", <<"followup">>)>>
        /\ Leave("value", safe_generate_text(resp))
        /\ UNCHANGED <<company_memory, mem_order, tool_calls, chat_history, Config,
                       op, args, env, pre, ncalls>>

----------------------------------------------------------------------------
(* perform_deep_research *)

\* perform_deep_research(company_name, status_callback) called on its own
CallPerformDeepResearch ==
    \E c \in Companies :
        /\ CanCall
        /\ Enter("perform_deep_research", Args(c, "", <<>>, <<>>, ""))
        /\ pc' = "r_search"
        /\ frame' = Frame("single", PyStr(c), <<>>, <<>>, "")
        /\ events' = <<>>
        /\ ret' = Pending
        /\ UNCHANGED <<company_memory, mem_order, tool_calls, chat_history, Config, env>>

\* line 207: search_data = self.search_web(...)
StepSearch ==
    \E prim \in SearchPrimary, fb \in FallbackFew :
        LET sw == search_web(<<frame.company.s, "strategic analysis news">>, 5, prim, fb)
        IN  /\ pc = "r_search"
            /\ tool_calls' = tool_calls \o sw.log
            /\ events' = events \o <<Event("research", <<frame.company.s>>),
                                      Event("search", <<frame.company.s>>)>> \o sw.events
            /\ pc' = "r_fin"
            /\ UNCHANGED <<company_memory, mem_order, chat_history, Config, op, args,
                           frame, ret, env, pre, ncalls>>

\* line 210: fin_data = self.fetch_financials(company_name)
StepFinancials ==
    \E prim \in TickerPrimary, fb \in FallbackFew, yf \in MarketFew :
        LET fo == fetch_financials(frame.company, prim, fb, yf)
        IN  /\ pc = "r_fin"
            /\ tool_calls' = tool_calls \o fo.log
            /\ events' = events \o <<Event("financials", <<frame.company.s>>)>> \o fo.events
            /\ IF fo.raised
               THEN Leave("raise", fo.val)
               ELSE pc' = "r_report" /\ UNCHANGED <<frame, ret>>
            /\ UNCHANGED <<company_memory, mem_order, chat_history, Config, op, args,
                           env, pre, ncalls>>

\* line 236: report_text = safe_generate_text(...)
StepReport ==
    \E resp \in ReportAnswers :
        /\ pc = "r_report"
        /\ frame' = [frame EXCEPT !.report_text = safe_generate_text(resp)]
        /\ events' = events \o <<Event("llm", <<"report">>)>>
        /\ pc' = "r_extract"
        /\ UNCHANGED <<company_memory, mem_order, tool_calls, chat_history, Config,
                       op, args, ret, env, pre, ncalls>>

\* lines 262-276: extraction, the Memory Store write, the return
StepExtract ==
    \E resp \in ExtractAnswers :
        /\ pc = "r_extract"
        /\ company_memory' = research_store(company_memory, frame.company.s,
                                            frame.report_text, extract_json(resp))
        /\ mem_order' = OrderSet(mem_order, frame.company.s)
        /\ events' = events \o <<Event("llm", <<"extract">>),
                                  Event("stored", <<frame.company.s>>)>>
        /\ IF frame.mode = "compare"
           THEN /\ pc' = "cmp_loop"
                /\ frame' = [frame EXCEPT !.todo = Tail(frame.todo)]
                /\ ret' = ret
           ELSE Leave("value", frame.report_text)
        /\ UNCHANGED <<tool_calls, chat_history, Config, op, args, env, pre, ncalls>>

----------------------------------------------------------------------------
(* compare_companies *)

\* compare_companies(companies, status_callback) called on its own
CallCompareCompanies ==
    \E cs \in CompanyLists :
        /\ CanCall
        /\ Enter("compare_companies", Args("", "", <<>>, cs, ""))
        /\ pc' = "cmp_loop"
        /\ frame' = Frame("compare", PyStr(""), <<>>, [i \in 1..Len(cs) |-> PyStr(cs[i])], "")
        /\ events' = <<>>
        /\ ret' = Pending
        /\ UNCHANGED <<company_memory, mem_order, tool_calls, chat_history, Config, env>>

\* one turn of the loop of lines 288-291 for a company that needs no research: the
\* membership test and data_points[c] (data_points only feeds the prompt)
StepCompareNext ==
    /\ pc = "cmp_loop"
    /\ frame.todo # <<>>
    /\ LET c == Head(frame.todo)
       IN  IF ~Hashable(c)
           THEN Leave("raise", <<"TypeError">>)
           ELSE IF c.kind = "str" /\ c.s \in DOMAIN company_memory
           THEN /\ frame' = [frame EXCEPT !.todo = Tail(frame.todo)]
                /\ UNCHANGED <<pc, ret>>
           ELSE /\ pc' = "r_search"
                /\ frame' = [frame EXCEPT !.company = c]
                /\ ret' = ret
    /\ UNCHANGED <<company_memory, mem_order, tool_calls, chat_history, Config, op,
                   args, events, env, pre, ncalls>>

\* lines 293-294: the comparison prompt and the return
StepCompareFinish ==
    \E resp \in CompareAnswers :
        /\ pc = "cmp_loop"
        /\ frame.todo = <<>>
        /\ events' = events \o <<Event("llm", <<"compare">>)>>
        /\ Leave("value", safe_generate_text(resp))
        /\ UNCHANGED <<company_memory, mem_order, tool_calls, chat_history, Config,
                       op, args, env, pre, ncalls>>

----------------------------------------------------------------------------
(* Specifications *)

\* the agent as the UI and other callers drive it
Next ==
    \/ CallAsk
    \/ CallPerformDeepResearch
    \/ CallCompareCompanies
    \/ CallUpdateCompanySection
    \/ StepSearch
    \/ StepFinancials
    \/ StepReport
    \/ StepExtract
    \/ StepCompareNext
    \/ StepCompareFinish
    \/ StepFollowup

\* a deployment with the search credentials set and duckduckgo_search installed
InitBoth == Init /\ google_configured /\ ddgs_available

Spec == InitBoth /\ [][Next]_vars

\* the search layer on its own
NextSearch == CallSearchWeb

SpecSearch == Init /\ [][NextSearch]_vars

\* the financial layer on its own
NextFin == CallFetchFinancials

SpecFin == Init /\ [][NextFin]_vars

\* the intent layer on its own
NextClassify == CallClassifyIntent

SpecClassify == Init /\ [][NextClassify]_vars

----------------------------------------------------------------------------
(* Properties *)

\* the call of entry point name has ended
Done(name) == pc = "idle" /\ op = name /\ ret.kind # "none"

IsStep(e) == e.ev \in {"search", "financials", "llm"}

IsResearch(e) == e.ev = "research"

\* the companies whose research flow the call started, in order
Researched(evs) ==
    LET r == SelectSeq(evs, IsResearch) IN [i \in 1..Len(r) |-> r[i].arg[1]]

\* the members of cs that are not keys of mem, each once, in order of first occurrence
RECURSIVE AbsentOnce(_, _)
AbsentOnce(cs, seen) ==
    IF cs = <<>> THEN <<>>
    ELSE IF Head(cs) \in seen THEN AbsentOnce(Tail(cs), seen)
    ELSE <<Head(cs)>> \o AbsentOnce(Tail(cs), seen \cup {Head(cs)})

\* C1: once a company key has an entry in Memory Store, no step changes its
\* original_text (nor removes the entry), a later research flow for the key included.
C1_OriginalTextNeverChanges ==
    [][\A k \in DOMAIN company_memory :
          /\ k \in DOMAIN company_memory'
          /\ company_memory'[k].original_text = company_memory[k].original_text]_vars

\* C2: every perform_deep_research(c) ends by returning the narrative, after search,
\* financial lookup, narrative generation and extraction in that order, and leaves
\* Memory Store with key c whose text is that narrative and whose json is the parsed
\* value or the parse-failure payload.
C2_ResearchAlwaysReturnsAndStores ==
    Done("perform_deep_research") =>
        /\ ret.kind = "value"
        /\ SelectSeq(events, IsStep) =
               <<Event("search", <<args.company>>), Event("financials", <<args.company>>),
                 Event("llm", <<"report">>), Event("llm", <<"extract">>)>>
        /\ args.company \in DOMAIN company_memory
        /\ company_memory[args.company].text = ret.val
        /\ company_memory[args.company].json \in {extract_json(r) : r \in ExtractAnswers}

HasEvent(name) == \E i \in 1..Len(events) : events[i].ev = name

\* the primary provider answered with HTTP 200
Primary200 == google_configured /\ env.prim.kind = "resp" /\ env.prim.code = 200

\* the primary path is unconfigured, raised or answered with another status
PrimaryFailed ==
    \/ ~google_configured
    \/ env.prim.kind = "raise"
    \/ env.prim.kind = "resp" /\ env.prim.code # 200

\* the list the fallback provider's answer amounts to, empty when it failed
FallbackList == IF env.fb.kind = "ok" THEN MapHits(env.fb.items) ELSE <<>>

\* C3 as stated: when the primary path raises, returns non-200 or is unconfigured the
\* fallback provider is attempted and its list (empty when it fails too) is returned;
\* when the primary returns HTTP 200 its results are returned and the fallback is
\* never attempted.
C3_FallbackIffPrimaryNot200 ==
    Done("search_web") =>
        /\ PrimaryFailed => (HasEvent("ddg") /\ ret.val = FallbackList)
        /\ Primary200 => (ret.val = MapHits(env.prim.items) /\ ~HasEvent("ddg"))

\* C3 amended: a 200 answer whose body cannot be read counts as a failure of the
\* primary path, and the fallback provider is attempted only when it is installed
\* (the empty list is returned when it is not).
C3_FallbackIffPrimaryUnusable ==
    Done("search_web") =>
        /\ ret.kind = "value"
        /\ HasEvent("google") <=> google_configured
        /\ (PrimaryFailed \/ (Primary200 /\ env.prim.body # "ok")) =>
              /\ HasEvent("ddg") <=> ddgs_available
              /\ ret.val = IF ddgs_available THEN FallbackList ELSE <<>>
        /\ (Primary200 /\ env.prim.body = "ok") =>
              /\ ret.val = MapHits(env.prim.items)
              /\ ~HasEvent("ddg")

\* C3 witness: the primary raised, the fallback was attempted and its hits came back
C3_Witness ==
    /\ Done("search_web")
    /\ google_configured
    /\ env.prim.kind = "raise"
    /\ HasEvent("ddg")
    /\ env.fb.kind = "ok"
    /\ Len(ret.val) >= 1
    /\ ret.val = MapHits(env.fb.items)

\* the shape of the classifier answer the last call consumed
ShapeOf(resp) == (CHOOSE f \in ClassifyFixtures : f.resp = resp).shape

BothKeys(d) == {"intent", "companies"} \subseteq DOMAIN d.fields

C5_CompareResearchesEachAbsentOnce ==
    Done("compare_companies") =>
        Researched(events) = AbsentOnce(args.companies, DOMAIN pre.mem)

\* C6: after construction no call raises: every entry point returns a value.
C6_NoCallRaises == ret.kind # "raise"

\* C7: update_company_section on a company present in Memory Store returns the success
\* string, sets json[section] to new_val and text to the regenerated text, and leaves
\* original_text, the other fields of the json and the other entries unchanged.
C7_UpdateEditsOneSection ==
    (Done("update_company_section") /\ args.company \in DOMAIN pre.mem) =>
        /\ ret.kind = "value"
        /\ ret.val = UpdateReply
        /\ DOMAIN company_memory = DOMAIN pre.mem
        /\ mem_order = pre.order
        /\ \A k \in DOMAIN pre.mem \ {args.company} : company_memory[k] = pre.mem[k]
        /\ LET new == company_memory[args.company]
               old == pre.mem[args.company]
           IN  /\ new.original_text = old.original_text
               /\ new.text \in {safe_generate_text(r) : r \in UpdateAnswers}
               /\ new.json.kind = "dict"
               /\ new.json.fields[args.section] = args.new_val
               /\ \A f \in DOMAIN old.json.fields \ {args.section} :
                      /\ f \in DOMAIN new.json.fields
                      /\ new.json.fields[f] = old.json.fields[f]

\* C8: update_company_section with a section that is not a key of the stored json
\* returns an error message and changes nothing.
C8_UnknownSectionChangesNothing ==
    (/\ Done("update_company_section")
     /\ args.company \in DOMAIN pre.mem
     /\ pre.mem[args.company].json.kind = "dict"
     /\ args.section \notin DOMAIN pre.mem[args.company].json.fields) =>
        /\ ret.kind = "value"
        /\ ret.val # UpdateReply
        /\ company_memory = pre.mem
        /\ events = <<>>

\* C9: update_company_section with a company key that is not in Memory Store returns
\* the error string, makes no LLM call and leaves Memory Store (its keys, their order
\* and every entry) unchanged.
C9_UnknownCompanyChangesNothing ==
    (Done("update_company_section") /\ args.company \notin DOMAIN pre.mem) =>
        /\ ret.kind = "value"
        /\ ret.val = NotFoundReply
        /\ events = <<>>
        /\ company_memory = pre.mem
        /\ mem_order = pre.order

\* the company strings and titles that hold an uppercase 1-5 letter token
CompanyHasTicker(c) == c \in {"IBM", "acme AB"}

TitleHasTicker(t) == t \in {"abcdef - IBM"}

\* C10: for a company string with no uppercase 1-5 letter token whose ticker search
\* yields no hit with one in its title, fetch_financials returns the error "Could not
\* detect ticker." and makes no market-data call; and the market-data provider is
\* only ever queried for a detected (non-empty) ticker.
C10_NoTickerNoMarketCall ==
    Done("fetch_financials") =>
        LET hits == search_web(<<args.company, "stock ticker symbol">>, 1,
                               env.prim, env.fb).results
        IN  /\ (/\ ~CompanyHasTicker(args.company)
                /\ \A i \in 1..Len(hits) : ~TitleHasTicker(hits[i].title)) =>
                   /\ ret.kind = "value"
                   /\ ret.val = FinError("Could not detect ticker.")
                   /\ ~HasEvent("yfinance")
            /\ \A i \in 1..Len(events) :
                   events[i].ev = "yfinance" => events[i].arg # <<>>

\* C9 witness: the editor was called for an unknown company while the store held
\* another one, and answered with the error string
C9_Witness ==
    /\ Done("update_company_section")
    /\ args.company \notin DOMAIN pre.mem
    /\ DOMAIN pre.mem # {}
    /\ ret.val = NotFoundReply

\* what the classifier returned to the ask in progress or just ended
Classified ==
    LET i == CHOOSE i \in 1..Len(events) : events[i].ev = "intent_data"
    IN  events[i].arg[1]

ClassifiedIntent == GetField(Classified, "intent", <<"research">>)

\* the steps a greeting or off-topic answer must not take
IsFlowStep(e) == e.ev \in {"research", "search", "financials", "yfinance", "google",
                           "ddg", "followup", "stored"}
                 \/ (e.ev = "llm" /\ e.arg # <<"classify">>)

\* C11: when the classifier returns intent greeting or off_topic, ask returns the
\* corresponding fixed string at once, with no search, financial, report, follow-up
\* or comparison step; Memory Store and the tool-call log are as before the call and
\* chat history is the one before the call with the user utterance appended.
C11_GreetingOffTopicOnlyAppendsChat ==
    (op = "ask" /\ ClassifiedIntent \in {<<"greeting">>, <<"off_topic">>}) =>
        /\ Done("ask")
        /\ ret.kind = "value"
        /\ ret.val = (IF ClassifiedIntent = <<"greeting">> THEN GreetingReply
                      ELSE OffTopicReply)
        /\ \A i \in 1..Len(events) : ~IsFlowStep(events[i])
        /\ company_memory = pre.mem
        /\ mem_order = pre.order
        /\ tool_calls = pre.tools
        /\ chat_history = Append(pre.chat, [role |-> "user", text |-> args.user_text])

\* C11 witness: an ask classified as a greeting ended while Memory Store held a plan
C11_Witness ==
    /\ Done("ask")
    /\ ClassifiedIntent = <<"greeting">>
    /\ DOMAIN pre.mem # {}
    /\ ret.val = GreetingReply
    /\ Len(chat_history) = Len(pre.chat) + 1

\* the company names the classifier returned: the items of its companies list, none
\* when the field is missing or is not a list
ClassifiedNames ==
    LET c == DecodeToks(GetField(Classified, "companies", <<"[", "]">>))
    IN  IF c.kind = "list" THEN PyItems(c) ELSE <<>>

\* the ask in progress has just dispatched (or ended at its dispatch)
JustDispatched == op = "ask" /\ events # <<>> /\ events[Len(events)].ev = "intent_data"

\* the most recently inserted key of Memory Store when the call started
LastInserted == pre.order[Len(pre.order)]

\* C12: for a classifier output that is neither greeting nor off_topic, ask runs
\* the Comparison Flow over the returned names when the intent is compare with at
\* least 2 names; goes to the follow-up on the most recently inserted key when the
\* intent is follow_up and Memory Store is not empty, and that call runs no research,
\* changes no Memory Store entry and returns the answer; and in every other case goes
\* to the research flow on the first returned name, or on the raw utterance if there
\* is none.
C12_AskDispatch ==
    (op = "ask" /\ ClassifiedIntent \notin {<<"greeting">>, <<"off_topic">>}) =>
        IF ClassifiedIntent = <<"compare">> /\ Len(ClassifiedNames) >= 2
        THEN /\ JustDispatched => pc # "idle"
             /\ pc # "idle" =>
                    /\ frame.mode = "compare"
                    /\ \E k \in 0..Len(ClassifiedNames) :
                           frame.todo = SubSeq(ClassifiedNames, k + 1, Len(ClassifiedNames))
             /\ (pc = "idle" /\ ret.kind = "value") =>
                    events[Len(events)] = Event("llm", <<"compare">>)
        ELSE IF ClassifiedIntent = <<"follow_up">> /\ DOMAIN pre.mem # {}
        THEN /\ JustDispatched => (pc = "followup" /\ frame.company = PyStr(LastInserted))
             /\ Researched(events) = <<>>
             /\ company_memory = pre.mem
             /\ mem_order = pre.order
             /\ pc = "idle" =>
                    /\ ret.kind = "value"
                    /\ \E i \in 1..Len(events) :
                           events[i] = Event("followup", <<LastInserted>>)
        ELSE JustDispatched =>
                 /\ pc = "r_search"
                 /\ frame.mode = "single"
                 /\ frame.company = (IF ClassifiedNames # <<>> THEN ClassifiedNames[1]
                                      ELSE PyStr(args.user_text))

====
